---- MODULE Spec2Model ----
(***************************************************************************)
(* A model of the diet-tracking application (app.py): the translation      *)
(* cache, the food-search client, the result projector, the nutrition      *)
(* lookup client, the meal store with its statistics page, backup and      *)
(* restore, the meal-management page, and a browser session with its      *)
(* login, reset confirmation and chatbot tab.  Each subsystem has its own  *)
(* specification (SpecTr, SpecFailOpen, SpecSearch, SpecProj, SpecNutri,   *)
(* SpecMeal, SpecData, SpecBackup, SpecReset, SpecAdd, SpecManage,         *)
(* SpecSession) over the variables it uses; the other variables keep       *)
(* their initial value.                                                    *)
(***************************************************************************)
EXTENDS Integers, Sequences, FiniteSets, TLC

VARIABLES
    users,          \* ids of the rows of table users
    meals,          \* rows of table meals
    manualMeals,    \* rows of table manual_meals
    ptable,         \* rows of table product_translations
    memo,           \* st.cache_data store of translate_to_korean_cached
    memoEn,         \* st.cache_data store of translate_to_english_cached
    tpc,            \* per browser session: position in a translation call
    tcall,          \* per browser session: the translation call in progress
    lastCall,       \* the translation call that ended last, as it ended
    persisted,      \* history: per barcode, the name last persisted for it
    search,         \* the search_food call in progress
    proj,           \* the last projection of a raw product list
    nutri,          \* the last get_nutrition_info call
    lastOp,         \* the last meal-store call: arguments, result, rows before
    download,       \* the last backup file offered for download
    page,           \* the meal-management page of one browser session
    session_state,  \* st.session_state of one browser session, key by key
    lastRun         \* that session's last script run: widgets, event, effects

vars == <<users, meals, manualMeals, ptable, memo, memoEn, tpc, tcall, lastCall,
          persisted, search, proj, nutri, lastOp, download, page,
          session_state, lastRun>>

storeVars == <<users, meals, manualMeals, lastOp>>

\* Python's None / a missing dictionary key.
Absent == "<absent>"

(***************************************************************************)
(* Sample values                                                           *)
(***************************************************************************)
Sessions == {"s1", "s2"}
Texts == {"Chicken Breast", "Tofu"}
Barcodes == {"123"}

\* translator.translate(text, dest='ko').text and (text, dest='en').text: the
\* live service's answer, a string other than the text it was given.
Ko(text) == "ko:" \o text
En(text) == "en:" \o text

(***************************************************************************)
(* Translation cache                                                       *)
(***************************************************************************)
\* The rows of product_translations for a barcode.
RowsFor(tbl, bc) == {r \in tbl : r.barcode = bc}

\* session.query(ProductTranslation).filter_by(barcode=barcode).first():
\* the stored name, or Absent when there is no row.
FirstName(tbl, bc) ==
    IF RowsFor(tbl, bc) = {} THEN Absent
    ELSE (CHOOSE r \in RowsFor(tbl, bc) : TRUE).translated_name

\* The unique constraint on ProductTranslation.barcode: an insert of a second
\* row for a barcode raises at commit.
UniqueViolation(tbl, bc) == RowsFor(tbl, bc) # {}

\* The arguments st.cache_data keys a call of translate_to_korean_cached by.
MemoKeys == Texts \X (Barcodes \cup {Absent})

EmptyMemo == [k \in MemoKeys |-> Absent]
EmptyMemoEn == [t \in Texts |-> Absent]

IdleCall == [fn |-> "none", text |-> Absent, bc |-> Absent, after |-> Absent,
             seen |-> "unread", live |-> FALSE, fail |-> "none", tr |-> Absent,
             row |-> Absent, via |-> "none", result |-> Absent, outcome |-> "pending"]

\* "except Exception as e: st.error(...); return text": the handler of both
\* translation functions, applied to the call record c after failure f.
ExceptRaises(c, f) == [c EXCEPT !.fail = f, !.outcome = "raised"]

ExceptReturnText(c, f) ==
    [c EXCEPT !.fail = f, !.result = c.text, !.outcome = "returned"]

\* A normal return of value v.
ReturnValue(c, v) == [c EXCEPT !.result = v, !.outcome = "returned"]

\* Whether a finished call's return value is stored by st.cache_data: every
\* value the function returns is (a raised exception is not).
Memoized(c) == c.outcome = "returned"

\* A call starts: st.cache_data answers from its store, or runs the body.
KoCall(s, text, bc) ==
    /\ tpc[s] = "idle"
    /\ LET c == [IdleCall EXCEPT !.fn = "ko", !.text = text, !.bc = bc,
                    !.after = IF bc = Absent THEN Absent ELSE persisted[bc]]
       IN  IF memo[<<text, bc>>] # Absent
           THEN /\ lastCall' = ReturnValue([c EXCEPT !.via = "memo"], memo[<<text, bc>>])
                /\ UNCHANGED <<tcall, tpc>>
           ELSE /\ tcall' = [tcall EXCEPT ![s] = [c EXCEPT !.via = "body"]]
                /\ tpc' = [tpc EXCEPT ![s] = IF bc # Absent THEN "lookup" ELSE "translate"]
                /\ UNCHANGED lastCall
    /\ UNCHANGED <<ptable, memo, memoEn, persisted>>

\* The body's end: the call returns (or raises), the store keeps the value
\* returned, and the session is free for its next interaction.
Finish(s, c) ==
    /\ lastCall' = c
    /\ tcall' = [tcall EXCEPT ![s] = IdleCall]
    /\ tpc' = [tpc EXCEPT ![s] = "idle"]
    /\ memo' = IF Memoized(c) THEN [memo EXCEPT ![<<c.text, c.bc>>] = c.result]
               ELSE memo

LookupHitTranslatesAnyway(c, name) == ReturnValue([c EXCEPT !.live = TRUE], Ko(c.text))

\* "if translation: return translation.translated_name"
LookupHit(c, name) == ReturnValue(c, name)

\* "if barcode: translation = query.first(); if translation: return ...".
KoLookup(s) ==
    /\ tpc[s] = "lookup"
    /\ LET c == [tcall[s] EXCEPT !.seen = FirstName(ptable, tcall[s].bc)]
       IN  \E ok \in BOOLEAN :
             IF ~ok THEN Finish(s, ExceptReturnText(c, "lookup"))
             ELSE IF c.seen # Absent THEN Finish(s, LookupHit(c, c.seen))
             ELSE /\ tcall' = [tcall EXCEPT ![s] = c]
                  /\ tpc' = [tpc EXCEPT ![s] = "translate"]
                  /\ UNCHANGED <<memo, lastCall>>
    /\ UNCHANGED <<ptable, memoEn, persisted>>

\* "translation = translator.translate(text, dest='ko').text".
KoTranslate(s) ==
    /\ tpc[s] = "translate"
    /\ LET c == [tcall[s] EXCEPT !.live = TRUE]
       IN  \E ok \in BOOLEAN :
             IF ~ok THEN Finish(s, ExceptReturnText(c, "translate"))
             ELSE IF c.bc = Absent THEN Finish(s, ReturnValue(c, Ko(c.text)))
             ELSE /\ tcall' = [tcall EXCEPT ![s] = [c EXCEPT !.tr = Ko(c.text)]]
                  /\ tpc' = [tpc EXCEPT ![s] = "insert"]
                  /\ UNCHANGED <<memo, lastCall>>
    /\ UNCHANGED <<ptable, memoEn, persisted>>

\* "session.add(new_translation); session.commit(); return translation".
\* row is the name the table holds for the barcode when the insert runs.
KoInsert(s) ==
    /\ tpc[s] = "insert"
    /\ LET c == [tcall[s] EXCEPT !.row = FirstName(ptable, tcall[s].bc)]
       IN  IF UniqueViolation(ptable, c.bc)
           THEN /\ Finish(s, ExceptReturnText(c, "duplicate"))
                /\ UNCHANGED <<ptable, persisted>>
           ELSE \E ok \in BOOLEAN :
                  IF ~ok
                  THEN /\ Finish(s, ExceptReturnText(c, "insert"))
                       /\ UNCHANGED <<ptable, persisted>>
                  ELSE /\ Finish(s, ReturnValue(c, c.tr))
                       /\ ptable' = ptable \cup
                              {[barcode |-> c.bc, translated_name |-> c.tr]}
                       /\ persisted' = [persisted EXCEPT ![c.bc] = c.tr]
    /\ UNCHANGED memoEn

\* translate_to_english_cached(text) run to its end against store mem.
EnRun(mem, text, ok) ==
    LET c == [IdleCall EXCEPT !.fn = "en", !.text = text]
        b == [c EXCEPT !.via = "body", !.live = TRUE]
        d == IF mem[text] # Absent THEN ReturnValue([c EXCEPT !.via = "memo"], mem[text])
             ELSE IF ok THEN ReturnValue(b, En(text))
             ELSE ExceptReturnText(b, "translate")
    IN  [call |-> d,
         mem |-> IF d.via = "body" /\ Memoized(d) THEN [mem EXCEPT ![text] = d.result]
                 ELSE mem]

\* translate_to_english_cached(text): no table, the same handler.
EnCall(s, text) ==
    /\ tpc[s] = "idle"
    /\ \E ok \in BOOLEAN :
         LET e == EnRun(memoEn, text, ok)
         IN  /\ lastCall' = e.call
             /\ memoEn' = e.mem
    /\ UNCHANGED <<ptable, memo, tpc, tcall, persisted>>

\* ttl=86400: an entry of the Korean store expires.
MemoExpire ==
    /\ \E k \in MemoKeys : memo[k] # Absent /\ memo' = [memo EXCEPT ![k] = Absent]
    /\ UNCHANGED <<ptable, memoEn, tpc, tcall, persisted, lastCall>>

\* ttl=86400: an entry of the English store expires.
MemoEnExpire ==
    /\ \E t \in Texts : memoEn[t] # Absent /\ memoEn' = [memoEn EXCEPT ![t] = Absent]
    /\ UNCHANGED <<ptable, memo, tpc, tcall, persisted, lastCall>>

(***************************************************************************)
(* Meal store                                                              *)
(***************************************************************************)
Usernames == {"kim", "lee"}

NutritionFields == {"calories", "proteins", "carbs", "fats"}

\* The dictionaries add_diet is given: one complete, one with only a name.
MealInputs ==
    { [name |-> "Tofu", calories |-> 76, proteins |-> 8, carbs |-> 2, fats |-> 5],
      [name |-> "Rice"] }
\* The same and one that gives only some nutrition values; those that give
\* every nutrition value.
PartialMeals == MealInputs \cup {[name |-> "Egg", calories |-> 70]}
FullMeals == {meal \in MealInputs : NutritionFields \subseteq DOMAIN meal}
ManualNames == {"Soup"}

\* The largest id a Meal row and a ManualMeal row are given.
MaxMeals == 2
MaxManualMeals == 2

\* A datetime: whole seconds and the microseconds datetime.utcnow() adds.
Noon == [sec |-> 1, micro |-> 0]
Times == {[sec |-> 1, micro |-> 5], [sec |-> 2, micro |-> 0]}

\* meal.get(key, 0.0)
GetOr(meal, key, default) == IF key \in DOMAIN meal THEN meal[key] ELSE default

\* An autoincrement integer primary key of an SQLite table: one more than the
\* largest id in the table.
MaxId(rows) == IF rows = {} THEN 0
               ELSE CHOOSE i \in {r.id : r \in rows} : \A r \in rows : r.id <= i
NextId(rows) == MaxId(rows) + 1

UserIdsOf(us) == {u.id : u \in us}

NoOp == [op |-> "none", user |-> 0, id |-> 0, ret |-> FALSE,
         mealsBefore |-> {}, manualBefore |-> {}]

Called(op, user, id, ret) ==
    lastOp' = [op |-> op, user |-> user, id |-> id, ret |-> ret,
               mealsBefore |-> meals, manualBefore |-> manualMeals]

\* create_user(username, password): False when the name is taken.
CreateUser(name) ==
    /\ Cardinality(users) < Cardinality(Usernames)
    /\ IF \E u \in users : u.username = name
       THEN users' = users
       ELSE users' = users \cup {[id |-> NextId(users), username |-> name]}
    /\ UNCHANGED <<meals, manualMeals, lastOp>>

\* The Meal row add_diet builds; date is the column default, the time of
\* the insert.
NewMeal(user_id, meal, now) ==
    [id |-> NextId(meals), user_id |-> user_id, name |-> meal.name,
     calories |-> GetOr(meal, "calories", 0), proteins |-> GetOr(meal, "proteins", 0),
     carbs |-> GetOr(meal, "carbs", 0), fats |-> GetOr(meal, "fats", 0),
     date |-> now]

\* add_diet(user_id, meal): commit, or roll back and return False.  ok: the
\* database accepts the insert.
AddDiet(user_id, meal, now) ==
    /\ NextId(meals) <= MaxMeals
    /\ \E ok \in BOOLEAN :
         /\ meals' = IF ok THEN meals \cup {NewMeal(user_id, meal, now)} ELSE meals
         /\ lastOp' = [op |-> "add_diet", user |-> user_id, id |-> NextId(meals),
                       ret |-> ok, mealsBefore |-> meals, manualBefore |-> manualMeals,
                       meal |-> meal, ok |-> ok]
    /\ UNCHANGED <<users, manualMeals>>

\* add_diet(user_id, meal) of data/database.py: meal['calories'],
\* meal['proteins'], meal['carbs'] and meal['fats'] raise KeyError for a
\* missing key, the handler rolls back and returns False; the Meal of
\* models.py has no date.
DbAddDiet(user_id, meal) ==
    /\ NextId(meals) <= MaxMeals
    /\ \E ok \in BOOLEAN :
         LET raised == ~(NutritionFields \subseteq DOMAIN meal)
             ret == ok /\ ~raised
         IN  /\ meals' = IF ret
                         THEN meals \cup
                                {[id |-> NextId(meals), user_id |-> user_id,
                                  name |-> meal.name, calories |-> meal.calories,
                                  proteins |-> meal.proteins, carbs |-> meal.carbs,
                                  fats |-> meal.fats]}
                         ELSE meals
             /\ lastOp' = [op |-> "database.add_diet", user |-> user_id,
                           id |-> NextId(meals), ret |-> ret, mealsBefore |-> meals,
                           manualBefore |-> manualMeals, meal |-> meal, ok |-> ok]
    /\ UNCHANGED <<users, manualMeals>>

\* add_manual_meal(user_id, meal)
AddManualMeal(user_id, name, now) ==
    /\ NextId(manualMeals) <= MaxManualMeals
    /\ \E ok \in BOOLEAN :
         /\ manualMeals' = IF ok
               THEN manualMeals \cup
                      {[id |-> NextId(manualMeals), user_id |-> user_id, name |-> name,
                        date |-> now]}
               ELSE manualMeals
         /\ Called("add_manual_meal", user_id, NextId(manualMeals), ok)
    /\ UNCHANGED <<users, meals>>

\* A get_diets without its filter: the rows of every user.
all_diets(user_id) == meals

\* get_diets(user_id), get_manual_meals(user_id)
get_diets(user_id) == {m \in meals : m.user_id = user_id}
get_manual_meals(user_id) == {m \in manualMeals : m.user_id = user_id}

\* query(...).filter_by(id=meal_id).first(): the filter of the wrong delete.
FindAnyOwner(rows, user_id, meal_id) == {m \in rows : m.id = meal_id}

\* query(...).filter_by(id=meal_id, user_id=user_id).first()
FindOwned(rows, user_id, meal_id) ==
    {m \in rows : m.id = meal_id /\ m.user_id = user_id}

\* delete_meal(user_id, meal_id): True when a row was found and deleted.
DeleteMeal(user_id, meal_id) ==
    /\ LET found == FindOwned(meals, user_id, meal_id)
       IN  IF found = {}
           THEN /\ meals' = meals
                /\ Called("delete_meal", user_id, meal_id, FALSE)
           ELSE \E ok \in BOOLEAN :
                  /\ meals' = IF ok THEN meals \ found ELSE meals
                  /\ Called("delete_meal", user_id, meal_id, ok)
    /\ UNCHANGED <<users, manualMeals>>

\* delete_manual_meal(user_id, meal_id)
DeleteManualMeal(user_id, meal_id) ==
    /\ LET found == FindOwned(manualMeals, user_id, meal_id)
       IN  IF found = {}
           THEN /\ manualMeals' = manualMeals
                /\ Called("delete_manual_meal", user_id, meal_id, FALSE)
           ELSE \E ok \in BOOLEAN :
                  /\ manualMeals' = IF ok THEN manualMeals \ found ELSE manualMeals
                  /\ Called("delete_manual_meal", user_id, meal_id, ok)
    /\ UNCHANGED <<users, meals>>

\* A reset without its filters: the rows of every user.
ResetEveryUser(user_id, ok) ==
    /\ meals' = IF ok THEN {} ELSE meals
    /\ manualMeals' = IF ok THEN {} ELSE manualMeals
    /\ ptable' = IF ok THEN {} ELSE ptable
    /\ UNCHANGED users

\* reset_database_tables() in the session of user_id: the user's Meal and
\* ManualMeal rows and every ProductTranslation row, in one transaction.
\* ok: the transaction commits; otherwise it is rolled back.
ResetDatabaseTables(user_id, ok) ==
    /\ meals' = IF ok THEN {m \in meals : m.user_id # user_id} ELSE meals
    /\ manualMeals' = IF ok THEN {m \in manualMeals : m.user_id # user_id}
                      ELSE manualMeals
    /\ ptable' = IF ok THEN {} ELSE ptable
    /\ UNCHANGED users

\* login_user(username, password) with the right password: the id the
\* session keeps as st.session_state.user_id, none when there is no such user.
login_any(us, name) == {NextId(us)}

login_user(us, name) == {u.id : u \in {x \in us : x.username = name}}

\* The user ids browser sessions are logged in with.
SessionUserIds == UNION {login_user(users, name) : name \in Usernames}

(***************************************************************************)
(* Statistics page                                                         *)
(***************************************************************************)
\* target_carbs, target_proteins, target_fats of show_statistics_with_chatbot
TargetCarbs == 130
TargetProteins == 60
TargetFats == 51

\* sum([meal.field for meal in rows])
RECURSIVE SumOf(_, _)
SumOf(rows, field) ==
    IF rows = {} THEN 0
    ELSE LET r == CHOOSE x \in rows : TRUE
         IN  r[field] + SumOf(rows \ {r}, field)

\* "current / target if target else 0", as a fraction with den > 0.
Ratio(current, target) ==
    IF target # 0 THEN [num |-> current, den |-> target] ELSE [num |-> 0, den |-> 1]

\* "progress if progress <= 1 else 1": what st.progress is given.
ProgressShown(progress) ==
    IF progress.num <= progress.den THEN progress ELSE [num |-> 1, den |-> 1]

\* show_statistics_with_chatbot in the session of user_id.  ok: the query of
\* get_diets succeeds; otherwise get_diets returns [].
ShowStatistics(user_id, ok) ==
    /\ LET rows == IF ok THEN get_diets(user_id) ELSE {}
           totals == [f \in NutritionFields |-> SumOf(rows, f)]
       IN  lastOp' = [op |-> "statistics", user |-> user_id, id |-> 0, ret |-> ok,
                      mealsBefore |-> meals, manualBefore |-> manualMeals,
                      returned |-> rows, totals |-> totals,
                      progress |->
                        [carbs |-> ProgressShown(Ratio(totals.carbs, TargetCarbs)),
                         proteins |-> ProgressShown(Ratio(totals.proteins, TargetProteins)),
                         fats |-> ProgressShown(Ratio(totals.fats, TargetFats))]]
    /\ UNCHANGED <<users, meals, manualMeals>>

(***************************************************************************)
(* Backup and restore                                                      *)
(***************************************************************************)
\* strftime('%Y-%m-%d %H:%M:%S'): the microseconds are not written.
FormatDate(d) == IF d.sec = 1 THEN "2024-01-01 00:00:01" ELSE "2024-01-01 00:00:02"

\* datetime.strptime(text, '%Y-%m-%d %H:%M:%S'): raises ValueError for a text
\* of another form.
Parsable(text) == text \in {"2024-01-01 00:00:01", "2024-01-01 00:00:02"}
ParseDate(text) == IF text = "2024-01-01 00:00:01" THEN [sec |-> 1, micro |-> 0]
                   ELSE [sec |-> 2, micro |-> 0]

\* The rows of a query in the order SQLite returns them, by id.
RECURSIVE SeqById(_)
SeqById(rows) ==
    IF rows = {} THEN <<>>
    ELSE LET m == CHOOSE r \in rows : \A x \in rows : r.id <= x.id
         IN  <<m>> \o SeqById(rows \ {m})

\* One element of meals_data of the wrong backup: no nutrition values.
BackupNameOnly(meal) ==
    [id |-> meal.id, name |-> meal.name, date |-> FormatDate(meal.date)]

\* One element of meals_data and of manual_meals_data.
BackupMeal(meal) ==
    [id |-> meal.id, name |-> meal.name, calories |-> meal.calories,
     proteins |-> meal.proteins, carbs |-> meal.carbs, fats |-> meal.fats,
     date |-> FormatDate(meal.date)]
BackupManualMeal(manual_meal) ==
    [id |-> manual_meal.id, name |-> manual_meal.name,
     date |-> FormatDate(manual_meal.date)]

\* A file that json.load rejects, and the JSON object with the two lists.
NotJson == [kind |-> "text"]
JsonFile(meals_data, manual_meals_data) ==
    [kind |-> "json", meals |-> meals_data, manual_meals |-> manual_meals_data]

\* The bytes backup_data(user_id) returns.
BackupOf(user_id) ==
    LET ms == SeqById(get_diets(user_id))
        mm == SeqById(get_manual_meals(user_id))
    IN  JsonFile([i \in 1..Len(ms) |-> BackupMeal(ms[i])],
                 [i \in 1..Len(mm) |-> BackupManualMeal(mm[i])])

NoDownload == [file |-> [kind |-> "none"], user |-> 0, meals |-> {}, manual |-> {}]

\* The backup button: the file offered for download, with the rows it was
\* made from.  ok: the queries succeed; otherwise backup_data returns None
\* and no file is offered.
BackupData(user_id, ok) ==
    /\ download' = IF ok
                   THEN [file |-> BackupOf(user_id), user |-> user_id,
                         meals |-> get_diets(user_id),
                         manual |-> get_manual_meals(user_id)]
                   ELSE download
    /\ UNCHANGED <<users, meals, manualMeals, lastOp>>

\* meal['name'], meal['date'] and strptime: the entries that raise.
EntryRaises(entry) ==
    \/ "name" \notin DOMAIN entry
    \/ "date" \notin DOMAIN entry
    \/ ~Parsable(entry.date)

\* The entries of a list handled before one raises, and whether one does.
Handled(entries) ==
    LET bad == {i \in 1..Len(entries) : EntryRaises(entries[i])}
    IN  IF bad = {} THEN Len(entries)
        ELSE (CHOOSE i \in bad : \A j \in bad : i <= j) - 1
Raises(entries) == \E i \in 1..Len(entries) : EntryRaises(entries[i])

\* The Meal and ManualMeal rows restore_data builds from an entry.
RestoredMeal(user_id, entry, id) ==
    [id |-> id, user_id |-> user_id, name |-> entry.name,
     calories |-> GetOr(entry, "calories", 0), proteins |-> GetOr(entry, "proteins", 0),
     carbs |-> GetOr(entry, "carbs", 0), fats |-> GetOr(entry, "fats", 0),
     date |-> ParseDate(entry.date)]
RestoredManualMeal(user_id, entry, id) ==
    [id |-> id, user_id |-> user_id, name |-> entry.name,
     date |-> ParseDate(entry.date)]

\* A restore that commits after every session.add.
CommitEachRow(rows, added, ok) == rows \cup added

\* "session.commit()" after both loops, "session.rollback()" in the handler:
\* the rows added to the session are persisted together or not at all.
CommitAtEnd(rows, added, ok) == IF ok THEN rows \cup added ELSE rows

\* restore_data(user_id, file).  commitOk: the commit succeeds.  ret is
\* FALSE when the function returns False; after a commit the function is
\* left through st.rerun().
RestoreData(user_id, file, commitOk) ==
    /\ LET isJson == file.kind = "json"
           ms == IF isJson THEN GetOr(file, "meals", <<>>) ELSE <<>>
           mm == IF isJson /\ ~Raises(ms) THEN GetOr(file, "manual_meals", <<>>)
                 ELSE <<>>
           newMeals == {RestoredMeal(user_id, ms[i], NextId(meals) + i - 1) :
                          i \in 1..Handled(ms)}
           newManual == {RestoredManualMeal(user_id, mm[i], NextId(manualMeals) + i - 1) :
                           i \in 1..Handled(mm)}
           ok == isJson /\ ~Raises(ms) /\ ~Raises(mm) /\ commitOk
       IN  /\ MaxId(meals) + Len(ms) <= MaxMeals
           /\ MaxId(manualMeals) + Len(mm) <= MaxManualMeals
           /\ meals' = CommitAtEnd(meals, newMeals, ok)
           /\ manualMeals' = CommitAtEnd(manualMeals, newManual, ok)
           /\ lastOp' = [op |-> "restore", user |-> user_id, id |-> 0, ret |-> ok,
                         mealsBefore |-> meals, manualBefore |-> manualMeals,
                         file |-> file]
    /\ UNCHANGED users

(***************************************************************************)
(* External food-search client                                             *)
(***************************************************************************)
\* def search_food(query, max_retries=3, backoff_factor=0.3)
DefaultMaxRetries == 3
\* backoff_factor in tenths of a second (0.3 s is 3).
DefaultBackoffTenths == 3
BackoffTenths == {DefaultBackoffTenths, 5}
\* The largest max_retries a call is made with.
MaxRetriesBound == 3

\* What one session_requests.get + raise_for_status + response.json() does:
\* an answer, or one of the three except clauses.
RequestOutcomes == {"ok", "transport", "http", "other"}

IdleSearch == [pc |-> "idle", query |-> Absent, translated |-> Absent,
               maxRetries |-> 0, backoff |-> 0, attempt |-> 0, requests |-> 0,
               outcomes |-> <<>>, delays |-> <<>>, result |-> "none",
               notice |-> FALSE]

\* time.sleep(backoff_factor * (2 ** attempt))
ConstantDelay(backoff, attempt) == backoff

BackoffDelay(backoff, attempt) == backoff * (2 ^ attempt)

\* The except clauses that end the loop with "break".
OnlyOtherBreaks(outcome) == outcome = "other"

BreaksLoop(outcome) == outcome \in {"http", "other"}

\* The call starts: the query is translated, the parameters are built.
SearchStart(query, max_retries, backoff) ==
    /\ search.pc = "idle"
    /\ \E ok \in BOOLEAN :
         LET e == EnRun(memoEn, query, ok)
         IN  /\ memoEn' = e.mem
             /\ search' = [IdleSearch EXCEPT !.pc = "loop", !.query = query,
                              !.translated = e.call.result, !.maxRetries = max_retries,
                              !.backoff = backoff]

\* One pass of "for attempt in range(max_retries)".
SearchAttempt ==
    /\ search.pc = "loop"
    /\ search.attempt < search.maxRetries
    /\ \E o \in RequestOutcomes :
         LET s1 == [search EXCEPT !.requests = @ + 1, !.outcomes = Append(@, o)]
         IN  search' =
               IF o = "ok"
               THEN [s1 EXCEPT !.pc = "done", !.result = "products"]
               ELSE IF BreaksLoop(o)
               THEN [s1 EXCEPT !.pc = "done", !.result = "empty", !.notice = TRUE]
               ELSE [s1 EXCEPT !.delays = Append(@, BackoffDelay(search.backoff, search.attempt)),
                               !.attempt = @ + 1]
    /\ UNCHANGED memoEn

\* The range is exhausted: st.error(...); return [].
SearchExhausted ==
    /\ search.pc = "loop"
    /\ search.attempt >= search.maxRetries
    /\ search' = [search EXCEPT !.pc = "done", !.result = "empty", !.notice = TRUE]
    /\ UNCHANGED memoEn

\* The caller takes the list.
SearchReturn ==
    /\ search.pc = "done"
    /\ search' = IdleSearch
    /\ UNCHANGED memoEn

(***************************************************************************)
(* Nutrition lookup client                                                 *)
(***************************************************************************)
NutrimentKeys == {"energy-kcal_100g", "proteins_100g", "carbohydrates_100g", "fat_100g"}

\* The values a nutriment holds in the service's JSON: a number, a string
\* that float() parses, a string it does not.
NutrimentValues == {[kind |-> "number", val |-> 12],
                    [kind |-> "numeric string", val |-> 7],
                    [kind |-> "text", val |-> 0]}

\* float(x) raises ValueError for a string that is no number.
FloatRaises(x) == x.kind = "text"
FloatOf(x) == x.val

\* Every dictionary with keys among keys and values among vals.
Dicts(keys, vals) == UNION {[d -> vals] : d \in SUBSET keys}

\* data.get('status'): missing, an integer, or the string "1".
StatusValues == {[kind |-> "missing", val |-> 0], [kind |-> "int", val |-> 0],
                 [kind |-> "int", val |-> 1], [kind |-> "string", val |-> 1]}

NutritionResponses ==
    {[kind |-> k] : k \in {"transport", "http", "other"}}
    \cup {[kind |-> "json", status |-> st, name |-> nm, nutriments |-> nu] :
            st \in StatusValues, nm \in {Absent, "Tofu"},
            nu \in Dicts(NutrimentKeys, NutrimentValues)}

EmptyResult == [empty |-> TRUE]

\* The default of product.get('product_name', ...), the "no name" marker.
NoName == "<no name>"

\* "if data.get('status') == 1" of the wrong lookup: any status given.
AnyStatus(status) == status.kind # "missing"

\* "if data.get('status') == 1"
ProductFound(status) == status.kind = "int" /\ status.val = 1

\* get_nutrition_info(barcode) for the response the request got.
NutritionOf(resp) ==
    IF resp.kind # "json" THEN EmptyResult
    ELSE IF ~ProductFound(resp.status) THEN EmptyResult
    ELSE IF \E k \in DOMAIN resp.nutriments : FloatRaises(resp.nutriments[k])
    THEN EmptyResult
    ELSE LET num(k) == IF k \in DOMAIN resp.nutriments
                       THEN FloatOf(resp.nutriments[k]) ELSE 0
         IN  [empty |-> FALSE,
              name |-> IF resp.name = Absent THEN NoName ELSE resp.name,
              calories |-> num("energy-kcal_100g"),
              proteins |-> num("proteins_100g"),
              carbs |-> num("carbohydrates_100g"),
              fats |-> num("fat_100g")]

NoLookup == [barcode |-> Absent, resp |-> [kind |-> "none"], result |-> EmptyResult]

GetNutritionInfo(barcode, resp) ==
    /\ nutri' = [barcode |-> barcode, resp |-> resp, result |-> NutritionOf(resp)]

(***************************************************************************)
(* Result projector                                                        *)
(***************************************************************************)
\* The markers for a missing barcode, manufacturer and category list; the
\* last two as one-character texts, to be split and joined like any other.
NoBarcode == "<no barcode>"
NoBrandChars == <<"<no manufacturer>">>
NoCategoryChars == <<"<no category>">>

\* A comma-separated field of a raw record: missing, or its characters.
MissingField == [has |-> FALSE, chars |-> <<>>]
Field(chars) == [has |-> TRUE, chars |-> chars]

\* The raw records the service answers with.  code, product_name_KR and
\* product_name are Absent when the key is missing.
RawProducts ==
    [code : {Absent, "123"},
     product_name_KR : {Absent, "", "kr:Dak"},
     product_name : {Absent, "Chicken Breast"},
     brands : {MissingField, Field(<<"a", ",", "b">>)},
     categories : {MissingField, Field(<<"x", ",", " ", "y">>)}]

\* The longest raw product list projected.
MaxProducts == 2

RawLists == UNION {[1..n -> RawProducts] : n \in 0..MaxProducts}

\* Python's truth of a string or None.
Truthy(x) == x # Absent /\ x # ""

\* str.split(',') on a text given as its characters.
RECURSIVE SplitFrom(_, _, _)
SplitFrom(chars, i, cur) ==
    IF i > Len(chars) THEN <<cur>>
    ELSE IF chars[i] = "," THEN <<cur>> \o SplitFrom(chars, i + 1, <<>>)
    ELSE SplitFrom(chars, i + 1, Append(cur, chars[i]))
Split(chars) == SplitFrom(chars, 1, <<>>)

\* ", ".join(parts)
RECURSIVE Join(_)
Join(parts) ==
    IF Len(parts) = 0 THEN <<>>
    ELSE IF Len(parts) = 1 THEN parts[1]
    ELSE parts[1] \o <<",", " ">> \o Join(Tail(parts))

\* ", ".join(product.get(key, default).split(','))
CommaSpaced(field, default) ==
    Join(Split(IF field.has THEN field.chars ELSE default))

\* translate_to_korean_cached(text, barcode) run to its end, alone, against
\* table tbl and store mem; dbOk and trOk say whether the database and the
\* translation service answer during the run.
KoRun(text, bc, tbl, mem, dbOk, trOk) ==
    LET c0 == [IdleCall EXCEPT !.fn = "ko", !.text = text, !.bc = bc]
        c1 == [c0 EXCEPT !.via = "body",
                         !.seen = IF bc # Absent THEN FirstName(tbl, bc) ELSE "unread"]
        c2 == [c1 EXCEPT !.live = TRUE]
        c ==  IF mem[<<text, bc>>] # Absent
              THEN ReturnValue([c0 EXCEPT !.via = "memo"], mem[<<text, bc>>])
              ELSE IF bc # Absent /\ ~dbOk THEN ExceptReturnText(c1, "lookup")
              ELSE IF bc # Absent /\ c1.seen # Absent THEN LookupHit(c1, c1.seen)
              ELSE IF ~trOk THEN ExceptReturnText(c2, "translate")
              ELSE ReturnValue([c2 EXCEPT !.tr = Ko(text)], Ko(text))
        inserted == c.via = "body" /\ c.fail = "none" /\ c.live /\ bc # Absent
    IN  [result |-> c.result,
         live |-> c.live,
         tbl |-> IF inserted
                 THEN tbl \cup {[barcode |-> bc, translated_name |-> c.tr]}
                 ELSE tbl,
         mem |-> IF Memoized(c) THEN [mem EXCEPT ![<<text, bc>>] = c.result] ELSE mem]

\* What a projection has built so far.
StartOf(tbl, mem) == [out |-> <<>>, calls |-> <<>>, tbl |-> tbl, mem |-> mem]

Display(name, p) ==
    [name |-> name,
     barcode |-> IF p.code = Absent THEN NoBarcode ELSE p.code,
     manufacturer |-> CommaSpaced(p.brands, NoBrandChars),
     categories |-> CommaSpaced(p.categories, NoCategoryChars)]

\* acc after one more record p whose name is the translation of (text, bc).
WithTranslated(acc, p, text, bc, dbOk, trOk) ==
    LET r == KoRun(text, bc, acc.tbl, acc.mem, dbOk, trOk)
    IN  [out |-> Append(acc.out, Display(r.result, p)),
         calls |-> Append(acc.calls, <<text, bc>>),
         tbl |-> r.tbl, mem |-> r.mem]

\* acc after one more record p whose name needs no translation.
WithName(acc, p, name) == [acc EXCEPT !.out = Append(@, Display(name, p))]

\* get_api_foods_cached: the body of "for product in products".
ListingStep(acc, p, dbOk, trOk) ==
    LET barcode == IF p.code = Absent THEN NoBarcode ELSE p.code
    IN  IF barcode # NoBarcode
        THEN IF Truthy(p.product_name_KR) THEN WithName(acc, p, p.product_name_KR)
             ELSE IF Truthy(p.product_name)
                  THEN WithTranslated(acc, p, p.product_name, barcode, dbOk, trOk)
                  ELSE WithName(acc, p, NoName)
        ELSE IF Truthy(p.product_name)
             THEN WithTranslated(acc, p, p.product_name, Absent, dbOk, trOk)
             ELSE WithName(acc, p, NoName)

\* manage_meals: one element of the list comprehension products_filtered.
SearchStep(acc, p, dbOk, trOk) ==
    IF ~(Truthy(p.product_name) \/ Truthy(p.product_name_KR)) THEN acc
    ELSE IF Truthy(p.product_name_KR) THEN WithName(acc, p, p.product_name_KR)
    ELSE WithTranslated(acc, p,
             IF p.product_name = Absent THEN NoName ELSE p.product_name,
             p.code, dbOk, trOk)

RECURSIVE ProjectListingFrom(_, _, _, _, _)
ProjectListingFrom(raw, i, acc, dbOk, trOk) ==
    IF i > Len(raw) THEN acc
    ELSE ProjectListingFrom(raw, i + 1, ListingStep(acc, raw[i], dbOk, trOk), dbOk, trOk)

RECURSIVE ProjectSearchFrom(_, _, _, _, _)
ProjectSearchFrom(raw, i, acc, dbOk, trOk) ==
    IF i > Len(raw) THEN acc
    ELSE ProjectSearchFrom(raw, i + 1, SearchStep(acc, raw[i], dbOk, trOk), dbOk, trOk)

\* The projection of get_api_foods_cached and the one of manage_meals.
ProjectListing(raw, tbl, mem, dbOk, trOk) ==
    ProjectListingFrom(raw, 1, StartOf(tbl, mem), dbOk, trOk)
ProjectSearch(raw, tbl, mem, dbOk, trOk) ==
    ProjectSearchFrom(raw, 1, StartOf(tbl, mem), dbOk, trOk)

NoProjection == [site |-> "none", raw |-> <<>>, tbl |-> {}, mem |-> EmptyMemo,
                 dbOk |-> TRUE, trOk |-> TRUE, out |-> <<>>, calls |-> <<>>]

Projected(site, raw, dbOk, trOk, r) ==
    /\ proj' = [site |-> site, raw |-> raw, tbl |-> ptable, mem |-> memo,
                dbOk |-> dbOk, trOk |-> trOk, out |-> r.out, calls |-> r.calls]
    /\ ptable' = r.tbl
    /\ memo' = r.mem

\* The listing page projects the page the service answered with.
ListFoods(raw, dbOk, trOk) ==
    Projected("listing", raw, dbOk, trOk, ProjectListing(raw, ptable, memo, dbOk, trOk))

\* The search form projects a non-empty search result ("if products:").
ShowSearchResults(raw, dbOk, trOk) ==
    /\ Len(raw) > 0
    /\ Projected("search", raw, dbOk, trOk, ProjectSearch(raw, ptable, memo, dbOk, trOk))

(***************************************************************************)
(* Meal-management page: search, select, save                              *)
(***************************************************************************)
\* A display record of st.session_state['search_results_manage'].
Shown(name, barcode) ==
    [name |-> name, barcode |-> barcode, manufacturer |-> NoBrandChars,
     categories |-> NoCategoryChars]

\* The search result the page is given: two products with a barcode and one
\* without.
FoundProducts ==
    <<Shown("ko:Tofu", "123"), Shown("ko:Rice", "456"), Shown("ko:Soup", NoBarcode)>>

Number(n) == [kind |-> "number", val |-> n]

\* What the nutrition service answers for a barcode when it answers.
FoundResponse(barcode) ==
    [kind |-> "json", status |-> [kind |-> "int", val |-> 1],
     name |-> IF barcode = "123" THEN "Tofu" ELSE "Rice",
     nutriments |-> IF barcode = "123"
                    THEN [k \in NutrimentKeys |-> Number(8)]
                    ELSE [k \in NutrimentKeys |-> Number(28)]]

\* The request of one get_nutrition_info(barcode) call: answered or failed.
ResponsesFor(barcode) == {FoundResponse(barcode), [kind |-> "transport"]}

\* st.session_state of the page (results, selected, nutrition), the barcode
\* whose lookup gave the nutrition held (heldFor), and what the last script
\* run did: the barcode of the selection (current) and its lookup result,
\* whether save inserted, the dictionary save gave to add_diet and the
\* barcode that dictionary was looked up for.
NoRun == [current |-> Absent, lookup |-> EmptyResult, saved |-> FALSE,
          meal |-> EmptyResult, mealFor |-> Absent]
NoPage == [results |-> <<>>, selected |-> Absent, nutrition |-> EmptyResult,
           heldFor |-> Absent, run |-> NoRun]

\* next((item for item in products if item name == selected), None): the
\* positions of the items with the selected name; the first is taken.
SelectedInfo(results, selected) ==
    {i \in 1..Len(results) : results[i].name = selected}

\* The barcode get_nutrition_info is called with in a run, Absent when it is
\* not called.
LookupBarcode(results, selected) ==
    LET hits == SelectedInfo(results, selected)
    IN  IF Len(results) = 0 \/ ~Truthy(selected) \/ hits = {} THEN Absent
        ELSE LET barcode == results[CHOOSE i \in hits : \A j \in hits : i <= j].barcode
             IN  IF Truthy(barcode) /\ barcode # NoBarcode THEN barcode ELSE Absent

\* "if 'search_results_manage' in st.session_state and ...": the selection
\* section of one run.  held is selected_nutrition_manage before the run.
SelectionSection(results, selected, held, heldFor, resp) ==
    LET barcode == LookupBarcode(results, selected)
        nutrition == NutritionOf(resp)
    IN  IF barcode # Absent /\ ~nutrition.empty
        THEN [current |-> barcode, held |-> nutrition, heldFor |-> barcode,
              lookup |-> nutrition]
        ELSE [current |-> barcode, held |-> held, heldFor |-> heldFor,
              lookup |-> EmptyResult]

\* A run of the page that ends without a save.
RunWithout(results, selected, resp) ==
    LET sec == SelectionSection(results, selected, page.nutrition, page.heldFor, resp)
    IN  page' = [results |-> results, selected |-> selected, nutrition |-> sec.held,
                 heldFor |-> sec.heldFor,
                 run |-> [NoRun EXCEPT !.current = sec.current,
                                       !.lookup = sec.lookup]]

\* The search form is submitted: a non-empty result replaces the stored one
\* and the select box starts at its first option.
SearchSubmit(found) ==
    /\ LET results == IF Len(found) > 0 THEN found ELSE page.results
           selected == IF Len(found) > 0 /\ found # page.results THEN found[1].name
                       ELSE page.selected
       IN  \E resp \in ResponsesFor(LookupBarcode(results, selected)) :
             RunWithout(results, selected, resp)
    /\ UNCHANGED <<users, meals, manualMeals, lastOp>>

\* Another product is chosen in the select box.
SelectProduct(name) ==
    /\ \E i \in 1..Len(page.results) : page.results[i].name = name
    /\ \E resp \in ResponsesFor(LookupBarcode(page.results, name)) :
         RunWithout(page.results, name, resp)
    /\ UNCHANGED <<users, meals, manualMeals, lastOp>>

\* The save button, shown when selected_nutrition_manage is set, is pressed:
\* the run repeats the selection section, then gives the held dictionary to
\* add_diet; on success the held dictionary and the results are cleared.
PressSave(user_id, now) ==
    /\ ~page.nutrition.empty
    /\ \E resp \in ResponsesFor(LookupBarcode(page.results, page.selected)) :
         LET sec == SelectionSection(page.results, page.selected, page.nutrition,
                                     page.heldFor, resp)
             run == [current |-> sec.current, lookup |-> sec.lookup,
                     saved |-> lastOp'.ret, meal |-> sec.held, mealFor |-> sec.heldFor]
         IN  /\ AddDiet(user_id, sec.held, now)
             /\ page' = IF lastOp'.ret
                        THEN [NoPage EXCEPT !.run = run]
                        ELSE [page EXCEPT !.nutrition = sec.held,
                                          !.heldFor = sec.heldFor, !.run = run]

(***************************************************************************)
(* Session state, the reset confirmation and the chatbot tab               *)
(***************************************************************************)
\* st.session_state is a dictionary: a function from the keys present to
\* their values.  NewSession is a browser session's dictionary before its
\* first script run.
NewSession == [k \in {} |-> FALSE]

\* st.session_state.key = value, for every key of kv.
Update(ss, kv) ==
    [k \in DOMAIN ss \cup DOMAIN kv |-> IF k \in DOMAIN kv THEN kv[k] ELSE ss[k]]

\* if key not in st.session_state: st.session_state.key = value, for every
\* key of kv.
Defaults(ss, kv) ==
    [k \in DOMAIN ss \cup DOMAIN kv |-> IF k \in DOMAIN ss THEN ss[k] ELSE kv[k]]

\* st.session_state.user_id = None.
NoUser == 0

\* initialize_app(): every key the pages read gets its default when missing.
initialize_app(ss) ==
    Defaults(ss, [logged_in |-> FALSE, page |-> "start", username |-> "",
                  user_id |-> NoUser, selected_nutrition_manage |-> Absent,
                  selected_nutrition_input |-> Absent,
                  search_results_manage |-> <<>>, api_foods_page |-> 1,
                  api_foods_page_size |-> 10, chatbot_messages |-> <<>>])

\* The keys reset_session_state keeps.
KeptKeys == {"logged_in", "username", "user_id", "page"}

\* A reset that deletes every key.
clear_session_state(ss) == NewSession

\* reset_session_state(): every key but the user's is deleted.
reset_session_state(ss) == [k \in DOMAIN ss \cap KeptKeys |-> ss[k]]

\* logout(), up to its st.rerun().
logout(ss) ==
    Update(ss, [logged_in |-> FALSE, username |-> "", user_id |-> NoUser,
                page |-> "start", chatbot_messages |-> <<>>])

\* Chatbot.__init__: the conversation a new Chatbot object starts with.
Chatbot ==
    [current_session |->
       <<[role |-> "system",
          content |-> "You are a helpful counseling assistant."]>>]

\* What the user types in st.chat_input, and what get_openai_response
\* returns: the completion's text or the message of a caught error.
ChatInputs == {"hi", "more"}
Replies == {"Eat more protein.", "<rate limit exceeded>"}

\* Chatbot.chat(user_input) on the object chatbot: the list given to
\* openai.ChatCompletion.create as messages, and the conversation afterwards.
chat(chatbot, user_input, response) ==
    LET conversation ==
          IF user_input # ""
          THEN Append(chatbot.current_session,
                      [role |-> "user", content |-> user_input])
          ELSE chatbot.current_session
    IN  [forwarded |-> conversation,
         response |-> response,
         current_session |-> Append(conversation,
                                [role |-> "assistant", content |-> response])]

\* A widget event that starts a script run, and the run without one (the
\* first load of the page, and the run st.rerun() starts).
NoEvent == [widget |-> "none", value |-> ""]
Event(widget, value) == [widget |-> widget, value |-> value]

\* The entries of the menu selectbox that matter here; the first one is
\* its value when the widget is new.
Choices == {"meal input", "chatbot", "logout"}
FirstChoice == "meal input"

\* What a script run leaves: the dictionary, the menu's value, the widgets
\* on the page, whether it ended in st.rerun(), whether it called
\* reset_database_tables, and the messages it gave the completion service.
Ran(ss, choice, shown, rerun, reset, forwarded) ==
    [ss |-> ss, choice |-> choice, shown |-> shown, rerun |-> rerun,
     reset |-> reset, forwarded |-> forwarded]

\* chatbot_tab(chatbot) in a run started by ev.
chatbot_tab(ss, choice, sidebar, ev, chatbot, response) ==
    LET s1 == Defaults(ss, [chatbot_messages |->
                              <<[role |-> "assistant", content |-> "<greeting>"]>>])
        shown == sidebar \cup {"chat_input"}
    IN  IF ev.widget = "chat_input" /\ ev.value # ""
        THEN LET call == chat(chatbot, ev.value, response)
                 transcript ==
                   s1.chatbot_messages
                     \o <<[role |-> "user", content |-> ev.value],
                          [role |-> "assistant", content |-> call.response]>>
             IN  Ran(Update(s1, [chatbot_messages |-> transcript]), choice,
                     shown, FALSE, FALSE, call.forwarded)
        ELSE Ran(s1, choice, shown, FALSE, FALSE, <<>>)

\* main_app(chatbot) in a run started by ev: the menu, the reset section of
\* the sidebar, then the page the menu names.  A button reads True only in
\* the run its press started, and only where the run reaches it.
main_app(ss, choice, ev, chatbot, response) ==
    LET c == IF ev.widget = "choice" THEN ev.value ELSE choice
        s0 == Defaults(ss, [confirm_reset |-> FALSE])
        sidebar == IF ~s0.confirm_reset THEN {"choice", "reset"}
                   ELSE {"choice", "cancel", "execute"}
    IN  IF s0.confirm_reset /\ ev.widget = "execute"
        THEN Ran(reset_session_state(s0), c, sidebar, TRUE, TRUE, <<>>)
        ELSE LET s1 == IF ~s0.confirm_reset /\ ev.widget = "reset"
                       THEN Update(s0, [confirm_reset |-> TRUE])
                       ELSE IF s0.confirm_reset /\ ev.widget = "cancel"
                       THEN Update(s0, [confirm_reset |-> FALSE])
                       ELSE s0
             IN  IF c = "chatbot"
                 THEN chatbot_tab(s1, c, sidebar, ev, chatbot, response)
                 ELSE IF c = "logout"
                 THEN Ran(logout(s1), c, sidebar, TRUE, FALSE, <<>>)
                 ELSE Ran(s1, c, sidebar, FALSE, FALSE, <<>>)

\* handle_login(username, password) with the user's password.
handle_login(ss, us, username) ==
    LET ids == login_user(us, username)
    IN  IF ids = {} THEN ss
        ELSE Update(ss, [logged_in |-> TRUE, username |-> username,
                         user_id |-> CHOOSE id \in ids : TRUE, page |-> "main"])

\* main() in a run started by ev: initialize_app, a new Chatbot, then the
\* start page, the login form or the application.  The menu is not on the
\* pages of a logged-out session, so its value is forgotten there.
main(ss0, choice, ev, response, us) ==
    LET ss == initialize_app(ss0)
        chatbot == Chatbot
    IN  IF ~ss.logged_in
        THEN IF ss.page = "login"
             THEN IF ev.widget = "login"
                  THEN Ran(handle_login(ss, us, ev.value), FirstChoice,
                           {"login"}, FALSE, FALSE, <<>>)
                  ELSE Ran(ss, FirstChoice, {"login"}, FALSE, FALSE, <<>>)
             ELSE IF ss.page = "start"
             THEN IF ev.widget = "start"
                  THEN Ran(Update(ss, [page |-> "login"]), FirstChoice,
                           {"start"}, TRUE, FALSE, <<>>)
                  ELSE Ran(ss, FirstChoice, {"start"}, FALSE, FALSE, <<>>)
             ELSE Ran(ss, FirstChoice, {}, FALSE, FALSE, <<>>)
        ELSE main_app(ss, choice, ev, chatbot, response)

\* The last script run of a session that has not loaded the page yet.
NoRunYet ==
    [choice |-> FirstChoice, shown |-> {}, event |-> NoEvent,
     confirmAtStart |-> FALSE, reset |-> FALSE, forwarded |-> <<>>,
     transcriptBefore |-> <<>>, keptBefore |-> NewSession,
     tablesBefore |-> <<{}, {}, {}>>]

\* One interaction: the event ev starts a script run, and a run that ends in
\* st.rerun() is followed at once by a run without an event.  response is
\* what the completion service answers, ok whether the reset's transaction
\* commits.
Interact(ev, response, ok) ==
    LET first == main(session_state, lastRun.choice, ev, response, users)
        last == IF first.rerun
                THEN main(first.ss, first.choice, NoEvent, response, users)
                ELSE first
    IN  /\ session_state' = last.ss
        /\ IF first.reset
           THEN ResetDatabaseTables(session_state.user_id, ok)
           ELSE UNCHANGED <<users, meals, manualMeals, ptable>>
        /\ lastRun' =
             [choice |-> last.choice, shown |-> last.shown, event |-> ev,
              confirmAtStart |-> /\ "confirm_reset" \in DOMAIN session_state
                                 /\ session_state.confirm_reset,
              reset |-> first.reset, forwarded |-> first.forwarded,
              transcriptBefore |->
                IF "chatbot_messages" \in DOMAIN session_state
                THEN session_state.chatbot_messages ELSE <<>>,
              keptBefore |-> [k \in DOMAIN session_state \cap KeptKeys |->
                                session_state[k]],
              tablesBefore |-> <<meals, manualMeals, ptable>>]

\* The browser opens the application.
OpenPage ==
    /\ lastRun.shown = {}
    /\ Interact(NoEvent, "", FALSE)

\* A button on the page is pressed.
PressButton(widget) ==
    /\ widget \in lastRun.shown
    /\ Interact(Event(widget, ""), "", FALSE)

\* The execute button on the page is pressed.
PressExecute(ok) ==
    /\ "execute" \in lastRun.shown
    /\ Interact(Event("execute", ""), "", ok)

\* The login form on the page is submitted.
SubmitLogin(username) ==
    /\ "login" \in lastRun.shown
    /\ Interact(Event("login", username), "", FALSE)

\* Another entry of the menu is chosen.
Choose(c) ==
    /\ "choice" \in lastRun.shown
    /\ c # lastRun.choice
    /\ Interact(Event("choice", c), "", FALSE)

\* A message is sent in the chat input, while the transcript is short of
\* MaxTurns questions and answers.
MaxTurns == 2

SendChat(text, response) ==
    /\ "chat_input" \in lastRun.shown
    /\ Len(session_state.chatbot_messages) < 2 * MaxTurns
    /\ Interact(Event("chat_input", text), response, FALSE)

(***************************************************************************)
(* Specifications                                                          *)
(***************************************************************************)
\* The state after construction: empty tables, empty stores, nothing running.
InitEmpty ==
    /\ users = {}
    /\ meals = {}
    /\ manualMeals = {}
    /\ ptable = {}
    /\ memo = EmptyMemo
    /\ memoEn = EmptyMemoEn
    /\ tpc = [s \in Sessions |-> "idle"]
    /\ tcall = [s \in Sessions |-> IdleCall]
    /\ lastCall = IdleCall
    /\ persisted = [b \in Barcodes |-> Absent]
    /\ search = IdleSearch
    /\ proj = NoProjection
    /\ nutri = NoLookup
    /\ lastOp = NoOp
    /\ download = NoDownload
    /\ page = NoPage
    /\ session_state = NewSession
    /\ lastRun = NoRunYet

\* The same with one user signed up.
SignedUp == {[id |-> 1, username |-> "kim"]}

InitSignedUp ==
    /\ users = SignedUp
    /\ meals = {}
    /\ manualMeals = {}
    /\ ptable = {}
    /\ memo = EmptyMemo
    /\ memoEn = EmptyMemoEn
    /\ tpc = [s \in Sessions |-> "idle"]
    /\ tcall = [s \in Sessions |-> IdleCall]
    /\ lastCall = IdleCall
    /\ persisted = [b \in Barcodes |-> Absent]
    /\ search = IdleSearch
    /\ proj = NoProjection
    /\ nutri = NoLookup
    /\ lastOp = NoOp
    /\ download = NoDownload
    /\ page = NoPage
    /\ session_state = NewSession
    /\ lastRun = NoRunYet

notTr == <<users, meals, manualMeals, lastOp, search, proj, nutri, download, page,
          session_state, lastRun>>

\* The translation cache of barcoded products under two browser sessions,
\* with the bulk reset of the signed-up user and the expiry of the store.
NextTr ==
    \/ /\ \E s \in Sessions, text \in Texts, bc \in Barcodes : KoCall(s, text, bc)
       /\ UNCHANGED notTr
    \/ /\ \E s \in Sessions : KoLookup(s)
       /\ UNCHANGED notTr
    \/ /\ \E s \in Sessions : KoTranslate(s)
       /\ UNCHANGED notTr
    \/ /\ \E s \in Sessions : KoInsert(s)
       /\ UNCHANGED notTr
    \/ /\ MemoExpire
       /\ UNCHANGED notTr
    \/ /\ \E u \in UserIdsOf(users), ok \in BOOLEAN : ResetDatabaseTables(u, ok)
       /\ UNCHANGED <<memo, memoEn, tpc, tcall, lastCall, persisted, lastOp,
                      search, proj, nutri, download, page,
          session_state, lastRun>>

SpecTr == InitSignedUp /\ [][NextTr]_vars

\* Both translation functions, with and without a barcode, for one text.
OneText == {"Tofu"}

NextFailOpen ==
    \/ /\ \E s \in Sessions, text \in OneText, bc \in Barcodes \cup {Absent} :
            KoCall(s, text, bc)
       /\ UNCHANGED notTr
    \/ /\ \E s \in Sessions : KoLookup(s)
       /\ UNCHANGED notTr
    \/ /\ \E s \in Sessions : KoTranslate(s)
       /\ UNCHANGED notTr
    \/ /\ \E s \in Sessions : KoInsert(s)
       /\ UNCHANGED notTr
    \/ /\ \E s \in Sessions, text \in OneText : EnCall(s, text)
       /\ UNCHANGED notTr
    \/ /\ MemoExpire
       /\ UNCHANGED notTr
    \/ /\ MemoEnExpire
       /\ UNCHANGED notTr

SpecFailOpen == InitSignedUp /\ [][NextFailOpen]_vars

notSearch == <<users, meals, manualMeals, lastOp, ptable, memo, tpc, tcall,
               lastCall, persisted, proj, nutri, download, page,
          session_state, lastRun>>

\* search_food, one call after another.
NextSearch ==
    \/ /\ \E query \in OneText, max_retries \in 0..MaxRetriesBound,
             backoff \in BackoffTenths : SearchStart(query, max_retries, backoff)
       /\ UNCHANGED notSearch
    \/ /\ SearchAttempt
       /\ UNCHANGED notSearch
    \/ /\ SearchExhausted
       /\ UNCHANGED notSearch
    \/ /\ SearchReturn
       /\ UNCHANGED notSearch

SpecSearch == InitEmpty /\ [][NextSearch]_vars

\* get_nutrition_info, one call after another.
NextNutri ==
    /\ \E barcode \in Barcodes, resp \in NutritionResponses :
         GetNutritionInfo(barcode, resp)
    /\ UNCHANGED <<users, meals, manualMeals, lastOp, ptable, memo, memoEn, tpc,
                   tcall, lastCall, persisted, search, proj, download, page,
          session_state, lastRun>>

SpecNutri == InitEmpty /\ [][NextNutri]_vars

\* The cache states a projection starts from: empty, a row stored for the
\* barcode, and a failed translation held by the store.
StoredRow == {[barcode |-> "123", translated_name |-> Ko("Tofu")]}
HeldFailure == [EmptyMemo EXCEPT ![<<"Chicken Breast", "123">>] = "Chicken Breast"]

InitProj ==
    /\ users = {}
    /\ meals = {}
    /\ manualMeals = {}
    /\ ptable \in {{}, StoredRow}
    /\ memo \in {EmptyMemo, HeldFailure}
    /\ memoEn = EmptyMemoEn
    /\ tpc = [s \in Sessions |-> "idle"]
    /\ tcall = [s \in Sessions |-> IdleCall]
    /\ lastCall = IdleCall
    /\ persisted = [b \in Barcodes |-> Absent]
    /\ search = IdleSearch
    /\ proj = NoProjection
    /\ nutri = NoLookup
    /\ lastOp = NoOp
    /\ download = NoDownload
    /\ page = NoPage
    /\ session_state = NewSession
    /\ lastRun = NoRunYet

notProj == <<users, meals, manualMeals, lastOp, memoEn, tpc, tcall, lastCall,
             persisted, search, nutri, download, page,
          session_state, lastRun>>

\* One projection, by either call site, of any raw list.
NextProj ==
    \/ /\ proj.site = "none"
       /\ \E raw \in RawLists, dbOk \in BOOLEAN, trOk \in BOOLEAN :
            ListFoods(raw, dbOk, trOk)
       /\ UNCHANGED notProj
    \/ /\ proj.site = "none"
       /\ \E raw \in RawLists, dbOk \in BOOLEAN, trOk \in BOOLEAN :
            ShowSearchResults(raw, dbOk, trOk)
       /\ UNCHANGED notProj

SpecProj == InitProj /\ [][NextProj]_vars

notStore == <<memo, memoEn, tpc, tcall, lastCall, persisted, search, proj, nutri,
              download, page,
          session_state, lastRun>>

\* The meal store: calls by the signed-up users, in any order.
NextMeal ==
    \/ /\ \E name \in Usernames : CreateUser(name)
       /\ UNCHANGED <<ptable, notStore>>
    \/ /\ \E u \in UserIdsOf(users), meal \in MealInputs : AddDiet(u, meal, Noon)
       /\ UNCHANGED <<ptable, notStore>>
    \/ /\ \E u \in UserIdsOf(users), name \in ManualNames : AddManualMeal(u, name, Noon)
       /\ UNCHANGED <<ptable, notStore>>
    \/ /\ \E u \in UserIdsOf(users), id \in 1..(MaxMeals + 1) : DeleteMeal(u, id)
       /\ UNCHANGED <<ptable, notStore>>
    \/ /\ \E u \in UserIdsOf(users), id \in 1..(MaxManualMeals + 1) :
            DeleteManualMeal(u, id)
       /\ UNCHANGED <<ptable, notStore>>
    \/ /\ \E u \in UserIdsOf(users), ok \in BOOLEAN :
            /\ ResetDatabaseTables(u, ok)
            /\ Called("reset", u, 0, ok)
       /\ UNCHANGED notStore

SpecMeal == InitEmpty /\ [][NextMeal]_vars

\* A well-formed file a user uploads to the restore form: its meal gives no
\* calories, proteins or fats and a negative carbs value.
WellFormedFile ==
    JsonFile(<<[name |-> "Kimchi", carbs |-> -140, date |-> "2024-01-01 00:00:02"]>>,
             <<[name |-> "Soup", date |-> "2024-01-01 00:00:01"]>>)

\* Files that restore_data rejects: one whose second meal has no date; one
\* whose manual meal has a date that does not parse; one whose meal has no
\* name; one that is no JSON.
RejectedFiles ==
    { JsonFile(<<[name |-> "Egg", calories |-> 70, date |-> "2024-01-01 00:00:01"],
                 [name |-> "Ham"]>>, <<>>),
      JsonFile(<<[name |-> "Egg", calories |-> 70, date |-> "2024-01-01 00:00:01"]>>,
               <<[name |-> "Tea", date |-> "yesterday"]>>),
      JsonFile(<<[date |-> "2024-01-01 00:00:01"]>>, <<>>),
      NotJson }

notData == <<memoEn, tpc, tcall, lastCall, persisted, search, proj, nutri, page,
          session_state, lastRun>>

\* The whole store: signup, the meal calls, restore from an uploaded file,
\* the bulk reset and the statistics page, by the logged-in users in any
\* order.
NextData ==
    \/ /\ \E name \in Usernames : CreateUser(name)
       /\ UNCHANGED <<ptable, memo, download, notData>>
    \/ /\ \E u \in SessionUserIds, meal \in FullMeals : AddDiet(u, meal, Noon)
       /\ UNCHANGED <<ptable, memo, download, notData>>
    \/ /\ \E u \in SessionUserIds, name \in ManualNames : AddManualMeal(u, name, Noon)
       /\ UNCHANGED <<ptable, memo, download, notData>>
    \/ /\ \E u \in SessionUserIds, id \in 1..(MaxMeals + 1) : DeleteMeal(u, id)
       /\ UNCHANGED <<ptable, memo, download, notData>>
    \/ /\ \E u \in SessionUserIds, id \in 1..(MaxManualMeals + 1) :
            DeleteManualMeal(u, id)
       /\ UNCHANGED <<ptable, memo, download, notData>>
    \/ /\ \E u \in SessionUserIds, ok \in BOOLEAN :
            RestoreData(u, WellFormedFile, ok)
       /\ UNCHANGED <<ptable, memo, download, notData>>
    \/ /\ \E u \in SessionUserIds, ok \in BOOLEAN :
            /\ ResetDatabaseTables(u, ok)
            /\ lastOp' = [op |-> "reset", user |-> u, id |-> 0, ret |-> ok]
       /\ UNCHANGED <<memo, download, notData>>
    \/ /\ \E u \in SessionUserIds, ok \in BOOLEAN : ShowStatistics(u, ok)
       /\ UNCHANGED <<ptable, memo, download, notData>>

SpecData == InitEmpty /\ [][NextData]_vars

\* Whether no two rows of a table share an id.
DistinctIds(rows) == \A r1, r2 \in rows : r1.id = r2.id => r1 = r2

\* The tables add_diet and add_manual_meal can have built for two users:
\* rows with ids up to the bound, added at either time.
BothUsers == {[id |-> 1, username |-> "kim"], [id |-> 2, username |-> "lee"]}
MealTables ==
    {t \in SUBSET {[id |-> i, user_id |-> u, name |-> meal.name,
                     calories |-> meal.calories, proteins |-> meal.proteins,
                     carbs |-> meal.carbs, fats |-> meal.fats, date |-> now] :
                      i \in 1..MaxMeals, u \in UserIdsOf(BothUsers),
                      meal \in FullMeals, now \in Times} : DistinctIds(t)}
ManualTables ==
    {t \in SUBSET {[id |-> i, user_id |-> u, name |-> name, date |-> Noon] :
                      i \in 1..MaxManualMeals, u \in UserIdsOf(BothUsers),
                      name \in ManualNames} : DistinctIds(t)}

\* Both users signed up, with any such tables.
InitBackup ==
    /\ users = BothUsers
    /\ meals \in MealTables
    /\ manualMeals \in ManualTables
    /\ ptable = {}
    /\ memo = EmptyMemo
    /\ memoEn = EmptyMemoEn
    /\ tpc = [s \in Sessions |-> "idle"]
    /\ tcall = [s \in Sessions |-> IdleCall]
    /\ lastCall = IdleCall
    /\ persisted = [b \in Barcodes |-> Absent]
    /\ search = IdleSearch
    /\ proj = NoProjection
    /\ nutri = NoLookup
    /\ lastOp = NoOp
    /\ download = NoDownload
    /\ page = NoPage
    /\ session_state = NewSession
    /\ lastRun = NoRunYet

\* The files the restore form is given: the last backup downloaded and the
\* files restore_data rejects.
UploadedFiles ==
    (IF download.file.kind = "json" THEN {download.file} ELSE {}) \cup RejectedFiles

\* Backup and restore: a user's rows are backed up, rows are reset, and a
\* user restores the downloaded file or a file restore_data rejects.
NextBackup ==
    \/ /\ \E u \in SessionUserIds, ok \in BOOLEAN : BackupData(u, ok)
       /\ UNCHANGED <<ptable, memo, notData>>
    \/ /\ \E u \in SessionUserIds, file \in UploadedFiles, ok \in BOOLEAN :
            RestoreData(u, file, ok)
       /\ UNCHANGED <<ptable, memo, download, notData>>
    \/ /\ \E u \in SessionUserIds, ok \in BOOLEAN :
            /\ ResetDatabaseTables(u, ok)
            /\ lastOp' = [op |-> "reset", user |-> u, id |-> 0, ret |-> ok]
       /\ UNCHANGED <<memo, download, notData>>

SpecBackup == InitBackup /\ [][NextBackup]_vars

\* Both users signed up, with any such tables and with or without a stored
\* translation.
InitReset ==
    /\ users = BothUsers
    /\ meals \in MealTables
    /\ manualMeals \in ManualTables
    /\ ptable \in {{}, StoredRow}
    /\ memo = EmptyMemo
    /\ memoEn = EmptyMemoEn
    /\ tpc = [s \in Sessions |-> "idle"]
    /\ tcall = [s \in Sessions |-> IdleCall]
    /\ lastCall = IdleCall
    /\ persisted = [b \in Barcodes |-> Absent]
    /\ search = IdleSearch
    /\ proj = NoProjection
    /\ nutri = NoLookup
    /\ lastOp = NoOp
    /\ download = NoDownload
    /\ page = NoPage
    /\ session_state = NewSession
    /\ lastRun = NoRunYet

\* The bulk reset, by either user, with the four tables as they were before.
NextReset ==
    /\ \E u \in SessionUserIds, ok \in BOOLEAN :
         /\ ResetDatabaseTables(u, ok)
         /\ lastOp' = [op |-> "reset", user |-> u, id |-> 0, ret |-> ok,
                       mealsBefore |-> meals, manualBefore |-> manualMeals,
                       usersBefore |-> users, tableBefore |-> ptable]
    /\ UNCHANGED <<memo, download, notData>>

SpecReset == InitReset /\ [][NextReset]_vars

\* The two add_diet functions of the repository, app.py's and
\* data/database.py's, and delete_meal, called by the signed-up user.
NextAdd ==
    \/ /\ \E u \in SessionUserIds, meal \in PartialMeals : AddDiet(u, meal, Noon)
       /\ UNCHANGED <<ptable, notStore>>
    \/ /\ \E u \in SessionUserIds, meal \in PartialMeals : DbAddDiet(u, meal)
       /\ UNCHANGED <<ptable, notStore>>
    \/ /\ \E u \in SessionUserIds, id \in 1..(MaxMeals + 1) : DeleteMeal(u, id)
       /\ UNCHANGED <<ptable, notStore>>

SpecAdd == InitSignedUp /\ [][NextAdd]_vars

notManage == <<ptable, memo, memoEn, tpc, tcall, lastCall, persisted, search, proj,
               nutri, download, session_state, lastRun>>

\* The meal-management page of the signed-up user: search, select, save.
NextManage ==
    \/ /\ \E found \in {FoundProducts, <<>>} : SearchSubmit(found)
       /\ UNCHANGED notManage
    \/ /\ \E name \in {FoundProducts[i].name : i \in 1..Len(FoundProducts)} :
            SelectProduct(name)
       /\ UNCHANGED notManage
    \/ /\ \E u \in SessionUserIds : PressSave(u, Noon)
       /\ UNCHANGED notManage

SpecManage == InitSignedUp /\ [][NextManage]_vars

\* Two users with a meal each, a manual meal and a stored translation, and a
\* browser session that has not loaded the page yet.
InitSession ==
    /\ users = BothUsers
    /\ meals = {[id |-> u, user_id |-> u, name |-> meal.name,
                 calories |-> meal.calories, proteins |-> meal.proteins,
                 carbs |-> meal.carbs, fats |-> meal.fats, date |-> Noon] :
                  u \in UserIdsOf(BothUsers), meal \in FullMeals}
    /\ manualMeals = {[id |-> 1, user_id |-> 1, name |-> name, date |-> Noon] :
                        name \in ManualNames}
    /\ ptable = StoredRow
    /\ memo = EmptyMemo
    /\ memoEn = EmptyMemoEn
    /\ tpc = [s \in Sessions |-> "idle"]
    /\ tcall = [s \in Sessions |-> IdleCall]
    /\ lastCall = IdleCall
    /\ persisted = [b \in Barcodes |-> Absent]
    /\ search = IdleSearch
    /\ proj = NoProjection
    /\ nutri = NoLookup
    /\ lastOp = NoOp
    /\ download = NoDownload
    /\ page = NoPage
    /\ session_state = NewSession
    /\ lastRun = NoRunYet

notSession == <<memo, memoEn, tpc, tcall, lastCall, persisted, search, proj, nutri,
                lastOp, download, page>>

\* One browser session: every interaction is an event on a widget the page
\* shows, whether or not the next run still renders that widget.  The login
\* form is given the two users' names and a stranger's.
NextSession ==
    \/ /\ OpenPage
       /\ UNCHANGED notSession
    \/ /\ \E widget \in {"start", "reset", "cancel"} : PressButton(widget)
       /\ UNCHANGED notSession
    \/ /\ \E ok \in BOOLEAN : PressExecute(ok)
       /\ UNCHANGED notSession
    \/ /\ \E username \in Usernames \cup {"park"} : SubmitLogin(username)
       /\ UNCHANGED notSession
    \/ /\ \E c \in Choices : Choose(c)
       /\ UNCHANGED notSession
    \/ /\ \E text \in ChatInputs, response \in Replies : SendChat(text, response)
       /\ UNCHANGED notSession

SpecSession == InitSession /\ [][NextSession]_vars

Spec == SpecMeal

(***************************************************************************)
(* Properties                                                              *)
(***************************************************************************)

\* C1 as claimed: once a row has been persisted for a barcode, every call
\* of translate_to_korean_cached for that barcode that starts later returns
\* the persisted name and makes no live translation call.  Stated for the
\* calls that run the function body and in which nothing fails.
C1_CachedForever ==
    (/\ lastCall.fn = "ko"
     /\ lastCall.after # Absent
     /\ lastCall.via = "body"
     /\ lastCall.fail = "none")
    => (lastCall.result = lastCall.after /\ ~lastCall.live)

\* C1 amended: a row, once persisted, holds the persisted name for as long as
\* it exists (only the bulk reset deletes it); a call whose lookup runs while
\* the row exists makes no live translation call and, unless the lookup
\* itself fails, returns the stored name; a call answered by the in-memory
\* store makes no live translation call either.
C1_CachedUntilReset ==
    /\ \A r \in ptable : r.translated_name = persisted[r.barcode]
    /\ (lastCall.fn = "ko" /\ lastCall.seen \notin {"unread", Absent})
          => /\ ~lastCall.live
             /\ lastCall.fail = "none" => lastCall.result = lastCall.seen
    /\ (lastCall.fn = "ko" /\ lastCall.via = "memo") => ~lastCall.live

\* A call made with another text than the one the row was translated from is
\* answered with the stored name.
C1_Witness ==
    /\ lastCall.fn = "ko"
    /\ lastCall.text = "Chicken Breast"
    /\ lastCall.seen = Ko("Tofu")
    /\ lastCall.result = Ko("Tofu")
    /\ ~lastCall.live

\* C2: both translation functions fail open: a call in which the lookup, the
\* live translation or the insert failed returns the text it was given, and
\* no call ends with an error raised to its caller.
C2_FailOpen ==
    /\ lastCall.fn # "none" => lastCall.outcome = "returned"
    /\ lastCall.fail # "none" => lastCall.result = lastCall.text

\* An insert that hit the unique constraint returned the text.
C2_Witness ==
    /\ lastCall.fn = "ko"
    /\ lastCall.fail = "duplicate"
    /\ lastCall.outcome = "returned"
    /\ lastCall.result = "Tofu"

\* C3 as claimed: no barcode ever has two rows, and the session whose insert
\* hits the duplicate-key failure returns the name stored in the existing
\* row.
C3_DuplicateReturnsStoredName ==
    /\ \A b \in Barcodes : Cardinality(RowsFor(ptable, b)) <= 1
    /\ lastCall.fail = "duplicate" => lastCall.result = lastCall.row

\* C4: when every request fails with a transport-level failure, search_food
\* issues exactly max_retries requests, sleeps after each a delay larger than
\* the one before, and then returns the empty list with the failure notice.
C4_RetriesThenFails ==
    (/\ search.pc = "done"
     /\ \A i \in 1..Len(search.outcomes) : search.outcomes[i] = "transport")
    => /\ search.requests = search.maxRetries
       /\ Len(search.outcomes) = search.maxRetries
       /\ Len(search.delays) = search.maxRetries
       /\ \A i \in 1..(Len(search.delays) - 1) : search.delays[i] < search.delays[i + 1]
       /\ search.result = "empty"
       /\ search.notice

\* The default call: three requests, delays of 0.3, 0.6 and 1.2 seconds.
C4_Witness ==
    /\ search.pc = "done"
    /\ search.maxRetries = DefaultMaxRetries
    /\ search.backoff = DefaultBackoffTenths
    /\ search.outcomes = <<"transport", "transport", "transport">>
    /\ search.delays = <<3, 6, 12>>
    /\ search.result = "empty"

\* C5: an HTTP error response, or a failure that is no transport failure,
\* ends the search at once: it is the last request, no delay follows it, and
\* the call returns the empty list with the failure notice.
C5_AbortsAtOnce ==
    \A i \in 1..Len(search.outcomes) :
      search.outcomes[i] \in {"http", "other"}
      => /\ search.pc = "done"
         /\ i = Len(search.outcomes)
         /\ search.requests = i
         /\ Len(search.delays) = i - 1
         /\ search.result = "empty"
         /\ search.notice

\* An HTTP error on the second request, after one transport failure.
C5_Witness ==
    /\ search.pc = "done"
    /\ search.maxRetries = DefaultMaxRetries
    /\ search.outcomes = <<"transport", "http">>
    /\ Len(search.delays) = 1
    /\ search.notice

\* The projection C6 describes: product_name_KR if present; else the
\* translation of (product_name, barcode) if the record has a barcode; else
\* the translation of product_name alone; else the "no name" marker.
ClaimedStep(acc, p, dbOk, trOk) ==
    IF Truthy(p.product_name_KR) THEN WithName(acc, p, p.product_name_KR)
    ELSE IF Truthy(p.product_name)
         THEN WithTranslated(acc, p, p.product_name, p.code, dbOk, trOk)
         ELSE WithName(acc, p, NoName)

RECURSIVE ClaimedFrom(_, _, _, _, _)
ClaimedFrom(raw, i, acc, dbOk, trOk) ==
    IF i > Len(raw) THEN acc
    ELSE ClaimedFrom(raw, i + 1, ClaimedStep(acc, raw[i], dbOk, trOk), dbOk, trOk)

NamesOf(out) == [i \in 1..Len(out) |-> out[i].name]

\* C6 as claimed: at both call sites every raw record is displayed under the
\* name the resolution order gives, with the translation-cache calls that
\* order makes.
C6_NameResolutionOrder ==
    proj.site # "none"
    => LET want == ClaimedFrom(proj.raw, 1, StartOf(proj.tbl, proj.mem),
                               proj.dbOk, proj.trOk)
       IN  /\ NamesOf(proj.out) = NamesOf(want.out)
           /\ proj.calls = want.calls

\* C6's example: code "123", no product_name_KR, product_name "Chicken
\* Breast", translation available: translate("Chicken Breast", "123") is
\* called and its value displayed.
C6_Example ==
    /\ proj.site = "search"
    /\ Len(proj.raw) = 1
    /\ proj.raw[1].code = "123"
    /\ proj.raw[1].product_name_KR = Absent
    /\ proj.raw[1].product_name = "Chicken Breast"
    /\ proj.tbl = {}
    /\ proj.mem = EmptyMemo
    /\ proj.calls = << <<"Chicken Breast", "123">> >>
    /\ NamesOf(proj.out) = << Ko("Chicken Breast") >>

\* C7 as claimed: for every raw list and cache state the two call sites give
\* the same display records and make the same translation-cache calls.
C7_SameProjection ==
    /\ proj.site = "listing"
       => LET other == ProjectSearch(proj.raw, proj.tbl, proj.mem, proj.dbOk, proj.trOk)
          IN  proj.out = other.out /\ proj.calls = other.calls
    /\ proj.site = "search"
       => LET other == ProjectListing(proj.raw, proj.tbl, proj.mem, proj.dbOk, proj.trOk)
          IN  proj.out = other.out /\ proj.calls = other.calls

\* Whether a response is a parsed answer that says the product was found.
SaysFound(resp) ==
    /\ resp.kind = "json"
    /\ resp.status = [kind |-> "int", val |-> 1]

\* C8: get_nutrition_info returns the empty result whenever the request
\* failed or the status is not 1, and a record only when the status is 1.
C8_EmptyUnlessFound ==
    nutri.resp.kind # "none"
    => /\ ~SaysFound(nutri.resp) => nutri.result = EmptyResult
       /\ ~nutri.result.empty => SaysFound(nutri.resp)

\* A parsed answer with status 0 and every nutriment given as a number.
C8_Witness ==
    /\ nutri.resp.kind = "json"
    /\ nutri.resp.status = [kind |-> "int", val |-> 0]
    /\ DOMAIN nutri.resp.nutriments = NutrimentKeys
    /\ nutri.result = EmptyResult

\* The value C9 gives a field: its number, 0 when absent or no number.
ClaimedNumber(nutriments, k) ==
    IF k \in DOMAIN nutriments /\ nutriments[k].kind # "text"
    THEN nutriments[k].val ELSE 0

\* C9 as claimed: for a found product the result is a record whose four
\* fields are the numbers of their source fields, 0 for a field that is
\* absent or holds no number.
C9_FieldDefaults ==
    (nutri.resp.kind # "none" /\ SaysFound(nutri.resp))
    => /\ ~nutri.result.empty
       /\ nutri.result.calories = ClaimedNumber(nutri.resp.nutriments, "energy-kcal_100g")
       /\ nutri.result.proteins = ClaimedNumber(nutri.resp.nutriments, "proteins_100g")
       /\ nutri.result.carbs = ClaimedNumber(nutri.resp.nutriments, "carbohydrates_100g")
       /\ nutri.result.fats = ClaimedNumber(nutri.resp.nutriments, "fat_100g")

\* The rows of a table with the given id and owner.
OwnedBefore(rows, user, id) == {m \in rows : m.id = id /\ m.user_id = user}

\* C10: delete_meal and delete_manual_meal return False and change no row
\* when the id does not exist or belongs to another user; when they return
\* True the one row with that id and owner is gone and no other row changed.
C10_DeleteOwnRowOnly ==
    /\ lastOp.op = "delete_meal"
       => LET owned == OwnedBefore(lastOp.mealsBefore, lastOp.user, lastOp.id)
          IN  /\ manualMeals = lastOp.manualBefore
              /\ owned = {} => ~lastOp.ret
              /\ ~lastOp.ret => meals = lastOp.mealsBefore
              /\ lastOp.ret => /\ Cardinality(owned) = 1
                               /\ meals = lastOp.mealsBefore \ owned
    /\ lastOp.op = "delete_manual_meal"
       => LET owned == OwnedBefore(lastOp.manualBefore, lastOp.user, lastOp.id)
          IN  /\ meals = lastOp.mealsBefore
              /\ owned = {} => ~lastOp.ret
              /\ ~lastOp.ret => manualMeals = lastOp.manualBefore
              /\ lastOp.ret => /\ Cardinality(owned) = 1
                               /\ manualMeals = lastOp.manualBefore \ owned

\* A delete of an id that exists and belongs to another user.
C10_Witness ==
    /\ lastOp.op = "delete_meal"
    /\ ~lastOp.ret
    /\ \E m \in lastOp.mealsBefore : m.id = lastOp.id /\ m.user_id # lastOp.user
    /\ meals = lastOp.mealsBefore

\* The rows of a table owned by a user.
OwnedBy(rows, user) == {m \in rows : m.user_id = user}

\* C11: the totals the statistics page shows for user U are, for each of
\* calories, proteins, carbs and fats, the sum over the Meal rows get_diets(U)
\* returned, which are rows of U only (all of them when the query succeeds);
\* ManualMeal rows and other users' rows contribute nothing.
C11_TotalsAreOwnMeals ==
    lastOp.op = "statistics"
    => /\ lastOp.returned \subseteq OwnedBy(meals, lastOp.user)
       /\ lastOp.ret => lastOp.returned = OwnedBy(meals, lastOp.user)
       /\ \A f \in NutritionFields :
            lastOp.totals[f] = SumOf(OwnedBy(lastOp.returned, lastOp.user), f)

\* The statistics of a user with a restored row, while another user holds a
\* row with nutrition values and the user a manual meal.
C11_Witness ==
    /\ lastOp.op = "statistics"
    /\ lastOp.ret
    /\ \E m \in meals : m.user_id # lastOp.user /\ m.calories > 0
    /\ \E m \in meals : m.user_id = lastOp.user /\ m.name = "Kimchi"
    /\ \E m \in manualMeals : m.user_id = lastOp.user
    /\ lastOp.totals.carbs = -140
    /\ lastOp.totals.calories = 0

\* What C12 compares of a Meal row and of a ManualMeal row.
MealView(m) == <<m.name, m.calories, m.proteins, m.carbs, m.fats, FormatDate(m.date)>>
ManualView(m) == <<m.name, FormatDate(m.date)>>

\* The multiset of the views of a set of rows: how many rows show each view.
BagOf(rows, View(_)) ==
    [v \in {View(r) : r \in rows} |-> Cardinality({r \in rows : View(r) = v})]

\* C12: after restore_data has restored a file made by backup_data into a
\* user who had no rows, that user's Meal rows show the same multiset of
\* (name, calories, proteins, carbs, fats, formatted date), and the
\* ManualMeal rows the same multiset of (name, formatted date), as the
\* backed-up user's rows at backup time; the rows added are that user's.
C12_RoundTrip ==
    (/\ lastOp.op = "restore"
     /\ lastOp.ret
     /\ lastOp.file = download.file
     /\ OwnedBy(lastOp.mealsBefore, lastOp.user) = {}
     /\ OwnedBy(lastOp.manualBefore, lastOp.user) = {})
    => /\ BagOf(OwnedBy(meals, lastOp.user), MealView) = BagOf(download.meals, MealView)
       /\ BagOf(OwnedBy(manualMeals, lastOp.user), ManualView)
            = BagOf(download.manual, ManualView)
       /\ \A m \in meals \ lastOp.mealsBefore : m.user_id = lastOp.user
       /\ \A m \in manualMeals \ lastOp.manualBefore : m.user_id = lastOp.user

\* A backup of two equal meals added with microseconds and of one manual
\* meal, restored into the other user under ids the rows did not have.
C12_Witness ==
    /\ lastOp.op = "restore"
    /\ lastOp.ret
    /\ lastOp.file = download.file
    /\ lastOp.user # download.user
    /\ OwnedBy(lastOp.mealsBefore, lastOp.user) = {}
    /\ Cardinality(download.meals) = 2
    /\ Cardinality({MealView(m) : m \in download.meals}) = 1
    /\ \A m \in download.meals : m.date.micro = 5 /\ m.calories > 0
    /\ Cardinality(download.manual) = 1
    /\ Cardinality(OwnedBy(meals, lastOp.user)) = 2
    /\ OwnedBy(meals, lastOp.user) \cap download.meals = {}

\* Whether a file is one C13 calls malformed: no JSON, or an entry of either
\* list without a name, without a date, or with a date that does not parse.
Malformed(file) ==
    \/ file.kind # "json"
    \/ \E i \in 1..Len(file.meals) : EntryRaises(file.meals[i])
    \/ \E i \in 1..Len(file.manual_meals) : EntryRaises(file.manual_meals[i])

\* C13: restore_data is all-or-nothing: for a malformed file, and whenever
\* it does not commit, it returns False and the Meal and ManualMeal tables
\* are as they were before the call.
C13_AllOrNothing ==
    lastOp.op = "restore"
    => /\ Malformed(lastOp.file) => ~lastOp.ret
       /\ ~lastOp.ret => /\ meals = lastOp.mealsBefore
                         /\ manualMeals = lastOp.manualBefore

\* A file whose first meal is well formed and whose second has no date was
\* rejected, and the first meal is not in the table.
C13_Witness ==
    /\ lastOp.op = "restore"
    /\ lastOp.file.kind = "json"
    /\ Len(lastOp.file.meals) = 2
    /\ ~EntryRaises(lastOp.file.meals[1])
    /\ EntryRaises(lastOp.file.meals[2])
    /\ ~lastOp.ret
    /\ meals = lastOp.mealsBefore
    /\ \A m \in meals : m.name # "Egg"

\* C14: a bulk reset by user U that commits deletes every Meal and
\* ManualMeal row of U and every translation row, and leaves the other
\* users' rows and the User rows as they were; a reset that fails leaves all
\* four tables as they were.
C14_ResetFrame ==
    lastOp.op = "reset"
    => /\ users = lastOp.usersBefore
       /\ lastOp.ret
          => /\ meals = lastOp.mealsBefore \ OwnedBy(lastOp.mealsBefore, lastOp.user)
             /\ manualMeals
                  = lastOp.manualBefore \ OwnedBy(lastOp.manualBefore, lastOp.user)
             /\ ptable = {}
       /\ ~lastOp.ret
          => /\ meals = lastOp.mealsBefore
             /\ manualMeals = lastOp.manualBefore
             /\ ptable = lastOp.tableBefore

\* A reset that deleted rows of both kinds and a translation row while the
\* other user held rows of both kinds.
C14_Witness ==
    /\ lastOp.op = "reset"
    /\ lastOp.ret
    /\ lastOp.tableBefore # {}
    /\ OwnedBy(lastOp.mealsBefore, lastOp.user) # {}
    /\ OwnedBy(lastOp.manualBefore, lastOp.user) # {}
    /\ meals # {}
    /\ manualMeals # {}
    /\ ptable = {}

\* C15 as claimed: add_diet given a record that lacks a nutrition field
\* returns True and inserts exactly one Meal row of the user, with 0 for each
\* missing field, unless the insert fails; then it returns False and adds no
\* row.  Stated for both add_diet functions.
C15_MissingFieldsDefault ==
    (/\ lastOp.op \in {"add_diet", "database.add_diet"}
     /\ ~(NutritionFields \subseteq DOMAIN lastOp.meal))
    => /\ lastOp.ok
          => /\ lastOp.ret
             /\ \E row \in meals \ lastOp.mealsBefore :
                  /\ meals = lastOp.mealsBefore \cup {row}
                  /\ row.user_id = lastOp.user
                  /\ row.name = lastOp.meal.name
                  /\ \A f \in NutritionFields : row[f] = GetOr(lastOp.meal, f, 0)
       /\ ~lastOp.ok => (~lastOp.ret /\ meals = lastOp.mealsBefore)

\* app.py's add_diet, given a record with a name and calories only, inserted
\* a row with 0 for proteins, carbs and fats.
C15_Witness ==
    /\ lastOp.op = "add_diet"
    /\ DOMAIN lastOp.meal = {"name", "calories"}
    /\ lastOp.ret
    /\ \E row \in meals \ lastOp.mealsBefore :
         /\ row.calories = 70
         /\ row.proteins = 0 /\ row.carbs = 0 /\ row.fats = 0

\* C16: every Meal row and every ManualMeal row has the id of an existing
\* User row as its user_id.
C16_RowsHaveUsers ==
    \A m \in meals \cup manualMeals : \E u \in users : u.id = m.user_id

\* Rows of both kinds held by both users, one of them restored from a file.
C16_Witness ==
    /\ Cardinality({m.user_id : m \in meals}) = 2
    /\ Cardinality({m.user_id : m \in manualMeals}) = 2
    /\ \E m \in meals : m.name = "Kimchi"
    /\ lastOp.op = "delete_manual_meal"

\* C17 as claimed: each progress value the statistics page gives to
\* st.progress lies in [0, 1], and is 1 when the total exceeds the target.
C17_ProgressInUnitInterval ==
    lastOp.op = "statistics"
    => /\ \A k \in {"carbs", "proteins", "fats"} :
            /\ 0 <= lastOp.progress[k].num
            /\ lastOp.progress[k].num <= lastOp.progress[k].den
       /\ lastOp.totals.carbs > TargetCarbs
            => lastOp.progress.carbs.num = lastOp.progress.carbs.den
       /\ lastOp.totals.proteins > TargetProteins
            => lastOp.progress.proteins.num = lastOp.progress.proteins.den
       /\ lastOp.totals.fats > TargetFats
            => lastOp.progress.fats.num = lastOp.progress.fats.den

\* C18 as claimed: when search_food has ended, the delay slept after failed
\* attempt k (from 0) was backoff * 2^k, and every delay was followed by
\* another request: the delays are one fewer than the requests.
C18_DelaysBetweenAttempts ==
    (search.pc = "done" /\ search.requests >= 1)
    => /\ \A k \in 1..Len(search.delays) :
            search.delays[k] = search.backoff * (2 ^ (k - 1))
       /\ Len(search.delays) = search.requests - 1

\* A search answered at its second request: one delay, between the two.
C18_Witness ==
    /\ search.pc = "done"
    /\ search.backoff = DefaultBackoffTenths
    /\ search.outcomes = <<"transport", "ok">>
    /\ search.delays = <<3>>
    /\ search.requests = 2

\* C19 as claimed: whenever save inserts a Meal row, the row's name and
\* nutrition values are a non-empty nutrition lookup result of the product
\* selected in that run, never one looked up for another product.
C19_SavesSelected ==
    page.run.saved
    => /\ ~page.run.meal.empty
       /\ page.run.current # Absent
       /\ page.run.mealFor = page.run.current
       /\ \E row \in meals :
            /\ row.id = lastOp.id
            /\ row.name = page.run.meal.name
            /\ \A f \in NutritionFields : row[f] = page.run.meal[f]

\* A save that inserted the nutrition looked up for the selected product.
C19_Witness ==
    /\ page.run.saved
    /\ page.run.current = "456"
    /\ page.run.mealFor = "456"
    /\ page.run.meal = page.run.lookup
    /\ \E row \in meals : row.id = lastOp.id /\ row.name = "Rice" /\ row.calories = 28

\* C20 as claimed: the in-memory stores never hold the untranslated text of
\* a failed call, so no call answered from a store returns the text it was
\* given.
C20_FailureNotMemoized ==
    /\ \A k \in MemoKeys : memo[k] # k[1]
    /\ \A t \in Texts : memoEn[t] # t
    /\ lastCall.via = "memo" => lastCall.result # lastCall.text

\* The messages of a conversation that are turns: all but the system's.
Turns(conversation) == SelectSeq(conversation, LAMBDA m : m.role # "system")

\* C21: on every chat turn the messages given to the completion service are,
\* in order, every earlier user message and assistant reply of the session's
\* transcript followed by the new user message.
C21_ForwardsWholeTranscript ==
    lastRun.event.widget = "chat_input" =>
        Turns(lastRun.forwarded) =
            lastRun.transcriptBefore
              \o <<[role |-> "user", content |-> lastRun.event.value]>>

\* A chat turn of a session whose transcript already holds a question and
\* its answer.
C21_Witness ==
    /\ lastRun.event.widget = "chat_input"
    /\ Len(lastRun.transcriptBefore) >= 2

\* Whether confirm_reset is set and true.
Confirming(ss) == "confirm_reset" \in DOMAIN ss /\ ss.confirm_reset

\* C22: the reset is confirmed in two steps.  reset_database_tables runs only
\* in an interaction that starts with confirm_reset true and is started by the
\* execute button; confirm_reset becomes true only in an interaction started
\* by the reset button; after cancel it is false and no row is deleted; after
\* an executed reset it is false and logged_in, username, user_id and page
\* have the values they had.
C22_TwoStepReset ==
    /\ lastRun.reset =>
          lastRun.confirmAtStart /\ lastRun.event.widget = "execute"
    /\ (Confirming(session_state) /\ ~lastRun.confirmAtStart) =>
          lastRun.event.widget = "reset"
    /\ lastRun.event.widget = "cancel" =>
          /\ ~Confirming(session_state)
          /\ <<meals, manualMeals, ptable>> = lastRun.tablesBefore
    /\ lastRun.reset =>
          /\ ~Confirming(session_state)
          /\ \A k \in KeptKeys :
                /\ k \in DOMAIN session_state
                /\ session_state[k] = lastRun.keptBefore[k]

\* An executed reset that deleted rows, in a logged-in session that had a
\* chat transcript.
C22_Witness ==
    /\ lastRun.reset
    /\ lastRun.event.widget = "execute"
    /\ lastRun.confirmAtStart
    /\ Len(lastRun.transcriptBefore) > 0
    /\ session_state.logged_in
    /\ <<meals, manualMeals, ptable>> # lastRun.tablesBefore

====
